---- MODULE Spec2Model ----
(***************************************************************************)
(* A state-machine model of the ptr crate (src/src/lib.rs): the raw        *)
(* wrappers ConstPtr / MutPtr and the manually reference-counted SmartPtr. *)
(*                                                                         *)
(* The heap is modelled as two families of cells: payload cells (the       *)
(* Box<T> leaked by SmartPtr::new) and counter cells (the Box<usize>       *)
(* leaked by SmartPtr::new_ref_count).  A handle is a SmartPtr value: its  *)
(* two MutPtr fields hold addresses, NULL being ptr::null_mut().  Rust's   *)
(* ownership rules are part of the program: a SmartPtr value is dropped    *)
(* exactly once, and no method is callable on it afterwards; the model     *)
(* keeps that as the "live" guard of every handle operation.               *)
(***************************************************************************)
EXTENDS Integers, FiniteSets, Sequences, TLC

\* ---------------------------------------------------------------- bounds
MaxHandles == 3
MaxFamilies == 2
MaxVal == 1
MaxWrappers == 2

Handles == 1..MaxHandles
PAddrs == 1..MaxFamilies
CAddrs == 1..MaxFamilies
Values == 0..MaxVal
Wrappers == 1..MaxWrappers
Pointees == 1..MaxWrappers

\* ------------------------------------------------------- program constants
\* ptr::null_mut(): the null address of MutPtr::default and MutPtr::clear.
NULL == 0

\* T::default() of the payload type (usize in the crate's tests).
DefaultValue == 0

\* What a read through an address that may not be dereferenced yields: the
\* read is undefined behaviour and produces no defined value.  The marker lies
\* outside Values.
Undef == 0 - 1

VARIABLES
  handles,   \* handle slot -> [st, ptr, rc]: the SmartPtr values
  pcell,     \* payload address -> [st, val]: the Box<T> allocations
  ccell,     \* counter address -> [st, val]: the Box<usize> allocations
  pfrees,    \* payload address -> times Box::from_raw reclaimed it (T's Drop ran)
  cfrees,    \* counter address -> times Box::from_raw reclaimed it
  written,   \* live payload cell -> last value stored through access_mut, or Undef
  writer,    \* live payload cell -> the handle slot that stored it, or 0
  crashed,   \* a null or dangling wrapper was dereferenced and the process trapped
  last,      \* the operation that produced this state
  raws       \* [w, cell]: free-standing ConstPtr / MutPtr values and their pointees

vars == <<handles, pcell, ccell, pfrees, cfrees, written, writer, crashed, last,
          raws>>

\* A wrapper slot no ConstPtr or MutPtr value occupies yet.
NoWrapper == [kind |-> "none", addr |-> NULL]

NoHandle == [st |-> "none", ptr |-> NULL, rc |-> NULL]

\* A SmartPtr value after its Drop::drop ran: the value is gone, nothing can
\* name its fields any more.
Dropped == [st |-> "dropped", ptr |-> NULL, rc |-> NULL]

\* ------------------------------------------------------------ MutPtr<T>
\* MutPtr::null: self.0.is_null()
null(p) == p = NULL

\* MutPtr::present: !self.null()
present(p) == ~null(p)

\* Leaves the address in place.
clear_Kept(p) == p

\* MutPtr::clear: self.0 = ptr::null_mut()
clear(p) == NULL

\* MutPtr::raw: self.0
raw(p) == p

\* Whether *p is a defined read or write of a payload cell: p is not null and
\* the Box behind it has not been reclaimed.
PDerefable(p) == present(p) /\ p \in PAddrs /\ pcell[p].st = "alloc"

\* Whether *c is a defined read or write of a counter cell.
CDerefable(c) == present(c) /\ c \in CAddrs /\ ccell[c].st = "alloc"

\* ------------------------------------------------------------ SmartPtr<T>
new_ref_count_Zero == 1 - 1

new_ref_count_Two == 1 + 1

\* SmartPtr::new_ref_count: the counter cell starts at 1usize.
new_ref_count == 1

\* struct SmartPtr { ptr, rc }: the handle has no third field and SmartPtr::new
\* allocates no extracted-flag cell, so the handle's reference to such a cell
\* is the null address.
extracted(hd) == NULL

valid_NoPtrCheck(hd) == present(hd.rc) /\ ccell[hd.rc].val > 0

\* SmartPtr::valid: self.ptr.present() && self.rc.present() && *self.rc > 0
valid(hd) == present(hd.ptr) /\ present(hd.rc) /\ ccell[hd.rc].val > 0

\* SmartPtr::access: &self.ptr coerced through MutPtr's Deref to &T.
access(hd) == IF PDerefable(hd.ptr) THEN pcell[hd.ptr].val ELSE Undef

\* SmartPtr::count (cfg(test)): *self.rc
count(hd) == ccell[hd.rc].val

Decrement_ByTwo(n) == n - 2

\* `*self.rc -= 1` of Drop::drop.  The counter is a usize; a result below zero
\* here stands for the wrapped (release) or panicking (debug) subtraction.
Decrement(n) == n - 1

Increment_Lost(n) == n

\* `*rc += 1` of Clone::clone.
Increment(n) == n + 1

\* The slot the next constructed SmartPtr value occupies.
HasSlot == \E h \in Handles : handles[h].st = "none"
NextSlot == CHOOSE h \in Handles :
              /\ handles[h].st = "none"
              /\ \A g \in Handles : g < h => handles[g].st # "none"

\* The most recently constructed SmartPtr value.
Newest == CHOOSE h \in Handles :
            /\ handles[h].st # "none"
            /\ \A g \in Handles : g > h => handles[g].st = "none"

\* Box::new: the allocator hands out an address not in use; freed addresses
\* are not handed out again within a run.
HasPAddr == \E a \in PAddrs : pcell[a].st = "unalloc"
NextPAddr == CHOOSE a \in PAddrs :
               /\ pcell[a].st = "unalloc"
               /\ \A b \in PAddrs : b < a => pcell[b].st # "unalloc"
HasCAddr == \E a \in CAddrs : ccell[a].st = "unalloc"
NextCAddr == CHOOSE a \in CAddrs :
               /\ ccell[a].st = "unalloc"
               /\ \A b \in CAddrs : b < a => ccell[b].st # "unalloc"

Init ==
  /\ handles = [h \in Handles |-> NoHandle]
  /\ pcell = [a \in PAddrs |-> [st |-> "unalloc", val |-> DefaultValue]]
  /\ ccell = [a \in CAddrs |-> [st |-> "unalloc", val |-> 0]]
  /\ pfrees = [a \in PAddrs |-> 0]
  /\ cfrees = [a \in CAddrs |-> 0]
  /\ written = [a \in PAddrs |-> Undef]
  /\ writer = [a \in PAddrs |-> 0]
  /\ crashed = FALSE
  /\ last = [op |-> "init", v |-> Undef, ok |-> TRUE]
  /\ raws = [w |-> [i \in Wrappers |-> NoWrapper],
             cell |-> [c \in Pointees |-> DefaultValue]]

\* SmartPtr::new(item): Box::leak(Box::new(item)) for the payload, then
\* new_ref_count() for the counter; the handle holds both addresses.
Construct(v, how) ==
  /\ ~crashed
  /\ HasSlot /\ HasPAddr /\ HasCAddr
  /\ LET h == NextSlot
         p == NextPAddr
         c == NextCAddr
     IN /\ pcell' = [pcell EXCEPT ![p] = [st |-> "alloc", val |-> v]]
        /\ ccell' = [ccell EXCEPT ![c] = [st |-> "alloc", val |-> new_ref_count]]
        /\ handles' = [handles EXCEPT ![h] =
                         [st |-> "live", ptr |-> p, rc |-> c]]
        /\ last' = [op |-> how, v |-> v, ok |-> TRUE]
  /\ UNCHANGED <<pfrees, cfrees, written, writer, crashed>>
  /\ UNCHANGED raws

New(v) == Construct(v, "new")

Default_Empty ==
  /\ ~crashed
  /\ HasSlot
  /\ handles' = [handles EXCEPT ![NextSlot] =
                   [st |-> "live", ptr |-> NULL, rc |-> NULL]]
  /\ last' = [op |-> "default", v |-> Undef, ok |-> TRUE]
  /\ UNCHANGED <<pcell, ccell, pfrees, cfrees, written, writer, crashed>>
  /\ UNCHANGED raws

\* impl Default for SmartPtr<T: Default>: Self::new(T::default())
Default == Construct(DefaultValue, "default")

\* Counts the new handle only when the source is valid().
Clone_Checked(h) ==
  /\ ~crashed
  /\ handles[h].st = "live"
  /\ HasSlot
  /\ LET hd == handles[h]
     IN /\ ccell' = IF valid(hd)
                    THEN [ccell EXCEPT ![hd.rc].val = Increment(@)]
                    ELSE ccell
        /\ handles' = [handles EXCEPT ![NextSlot] =
                         [st |-> "live", ptr |-> hd.ptr, rc |-> hd.rc]]
        /\ last' = [op |-> "clone", v |-> ccell[hd.rc].val, ok |-> valid(hd)]
  /\ UNCHANGED <<pcell, pfrees, cfrees, written, writer, crashed>>
  /\ UNCHANGED raws

\* impl Clone for SmartPtr: copy both wrappers, `*rc += 1`, no validity check.
\* Dereferencing a counter wrapper whose cell is gone is undefined behaviour.
\* last.v keeps the counter as it read before the increment, last.ok what
\* valid() was for the source.
Clone(h) ==
  /\ ~crashed
  /\ handles[h].st = "live"
  /\ HasSlot
  /\ LET hd == handles[h]
         n == NextSlot
     IN IF CDerefable(hd.rc)
        THEN /\ ccell' = [ccell EXCEPT ![hd.rc].val = Increment(@)]
             /\ handles' = [handles EXCEPT ![n] =
                              [st |-> "live", ptr |-> hd.ptr, rc |-> hd.rc]]
             /\ last' = [op |-> "clone", v |-> ccell[hd.rc].val,
                         ok |-> valid(hd)]
             /\ UNCHANGED crashed
        ELSE /\ crashed' = TRUE
             /\ last' = [op |-> "clone", v |-> Undef,
                         ok |-> FALSE]
             /\ UNCHANGED <<ccell, handles>>
  /\ UNCHANGED <<pcell, pfrees, cfrees, written, writer>>
  /\ UNCHANGED raws

Unchanged ==
  [pcell |-> pcell, ccell |-> ccell, pfrees |-> pfrees, cfrees |-> cfrees,
   written |-> written, writer |-> writer]

\* Box::from_raw(self.ptr.raw()) then Box::from_raw(self.rc.raw()), each dropped
\* at once: the payload's own Drop runs, which ends the payload value, and both
\* allocations are returned.  The counter cell keeps the 0 just stored in it.
FreeBoth(hd, cc) ==
  [pcell  |-> [pcell EXCEPT ![raw(hd.ptr)] = [st |-> "freed", val |-> DefaultValue]],
   ccell  |-> [cc EXCEPT ![raw(hd.rc)].st = "freed"],
   pfrees |-> [pfrees EXCEPT ![raw(hd.ptr)] = @ + 1],
   cfrees |-> [cfrees EXCEPT ![raw(hd.rc)] = @ + 1],
   written |-> [written EXCEPT ![raw(hd.ptr)] = Undef],
   writer |-> [writer EXCEPT ![raw(hd.ptr)] = 0]]

\* Frees on every release, without the `*self.rc == 0` test.
DropStore_FreeEarly(hd) ==
  IF valid(hd)
  THEN FreeBoth(hd, [ccell EXCEPT ![hd.rc].val = Decrement(@)])
  ELSE Unchanged

\* Reclaims the payload only: the counter cell is never returned.
DropStore_PayloadOnly(hd) ==
  IF valid(hd)
  THEN LET n == Decrement(ccell[hd.rc].val)
           cc == [ccell EXCEPT ![hd.rc].val = n]
       IN IF n = 0
          THEN [Unchanged EXCEPT !.ccell = cc,
                                 !.pcell = [pcell EXCEPT ![hd.ptr] =
                                              [st |-> "freed", val |-> DefaultValue]],
                                 !.pfrees = [pfrees EXCEPT ![hd.ptr] = @ + 1]]
          ELSE [Unchanged EXCEPT !.ccell = cc]
  ELSE Unchanged

\* Tests only the counter wrapper before releasing, not valid().
DropStore_NoGuard(hd) ==
  IF present(hd.rc)
  THEN LET n == Decrement(ccell[hd.rc].val)
           cc == [ccell EXCEPT ![hd.rc].val = n]
       IN IF n = 0 /\ present(hd.ptr)
          THEN FreeBoth(hd, cc)
          ELSE [Unchanged EXCEPT !.ccell = cc]
  ELSE Unchanged

\* The heap after Drop::drop of the handle value hd:
\*   if self.valid() { *self.rc -= 1; if *self.rc == 0 { free both } }
DropStore(hd) ==
  IF valid(hd)
  THEN LET n == Decrement(ccell[hd.rc].val)
           cc == [ccell EXCEPT ![hd.rc].val = n]
       IN IF n = 0
          THEN FreeBoth(hd, cc)
          ELSE [Unchanged EXCEPT !.ccell = cc]
  ELSE Unchanged

\* impl Drop for SmartPtr.  valid() reads *self.rc once both wrappers are
\* present; reading a counter cell that is gone is undefined behaviour.
Drop(h) ==
  /\ ~crashed
  /\ handles[h].st = "live"
  /\ LET hd == handles[h]
     IN IF present(hd.ptr) /\ present(hd.rc) /\ ~CDerefable(hd.rc)
        THEN /\ crashed' = TRUE
             /\ last' = [op |-> "drop", v |-> Undef, ok |-> FALSE]
             /\ UNCHANGED <<pcell, ccell, pfrees, cfrees, written, writer>>
        ELSE LET s == DropStore(hd)
             IN /\ pcell' = s.pcell
                /\ ccell' = s.ccell
                /\ pfrees' = s.pfrees
                /\ cfrees' = s.cfrees
                /\ written' = s.written
                /\ writer' = s.writer
                /\ last' = [op |-> "drop", v |-> Undef,
                            ok |-> valid(hd)]
                /\ UNCHANGED crashed
  /\ handles' = [handles EXCEPT ![h] = Dropped]
  /\ UNCHANGED raws

\* MutPtr::clear reached through impl DerefMut for SmartPtr (Target = MutPtr<T>):
\* handle.clear() nulls the handle's own payload wrapper; rc is private and stays.
Clear(h) ==
  /\ ~crashed
  /\ handles[h].st = "live"
  /\ handles' = [handles EXCEPT ![h].ptr = clear(@)]
  /\ last' = [op |-> "clear", v |-> Undef, ok |-> TRUE]
  /\ UNCHANGED <<pcell, ccell, pfrees, cfrees, written, writer, crashed>>
  /\ UNCHANGED raws

Store_Lost(pc, p, v) == pc

\* `*handle.access_mut() = v` (or `**handle = v`): MutPtr's DerefMut, &mut *self.0
Store(pc, p, v) == [pc EXCEPT ![p].val = v]

\* SmartPtr::access_mut followed by a write of v.  No validity check is made:
\* through a null or dangling wrapper the write is undefined behaviour, which
\* either traps or is dropped by the build.
AccessMut(h, v) ==
  /\ ~crashed
  /\ handles[h].st = "live"
  /\ LET hd == handles[h]
     IN /\ IF PDerefable(hd.ptr)
           THEN /\ pcell' = Store(pcell, hd.ptr, v)
                /\ written' = [written EXCEPT ![hd.ptr] = v]
                /\ writer' = [writer EXCEPT ![hd.ptr] = h]
                /\ UNCHANGED crashed
           ELSE /\ crashed' \in BOOLEAN
                /\ UNCHANGED <<pcell, written, writer>>
        /\ last' = [op |-> "access_mut", v |-> Undef,
                    ok |-> PDerefable(hd.ptr)]
  /\ UNCHANGED <<handles, ccell, pfrees, cfrees>>
  /\ UNCHANGED raws

\* Compares the two payload wrappers' addresses instead of the payloads.
eq_ByAddress(ha, hb) == ha.ptr = hb.ptr

\* impl PartialEq for SmartPtr::eq: self.ptr.eq(other).  MutPtr has no PartialEq
\* of its own, so the call auto-derefs self.ptr to T and coerces other through
\* SmartPtr's and MutPtr's Deref to &T: the payloads' own equality.
eq(ha, hb) == pcell[ha.ptr].val = pcell[hb.ptr].val

\* `a == b` on two un-dropped handles.  Both payload wrappers are dereferenced
\* unchecked: through a null or dangling one the comparison is undefined
\* behaviour, which traps or yields either answer.  last.ok is the answer.
Eq(a, b) ==
  /\ ~crashed
  /\ handles[a].st = "live" /\ handles[b].st = "live"
  /\ IF PDerefable(handles[a].ptr) /\ PDerefable(handles[b].ptr)
     THEN /\ last' = [op |-> "eq", v |-> Undef, ok |-> eq(handles[a], handles[b]),
                      a |-> a, b |-> b]
          /\ UNCHANGED crashed
     ELSE /\ crashed' \in BOOLEAN
          /\ \E res \in BOOLEAN :
               last' = [op |-> "eq", v |-> Undef, ok |-> res, a |-> a, b |-> b]
  /\ UNCHANGED <<handles, pcell, ccell, pfrees, cfrees, written, writer>>
  /\ UNCHANGED raws

Next ==
  \/ \E v \in Values : New(v)
  \/ Default
  \/ \E h \in Handles : Clone(h)
  \/ \E h \in Handles : Drop(h)
  \/ \E h \in Handles : Clear(h)
  \/ \E h \in Handles, v \in Values : AccessMut(h, v)

\* Every operation of a handle, in any order.
Spec == Init /\ [][Next]_vars

NextNCD ==
  \/ \E v \in Values : New(v)
  \/ \E h \in Handles : Clone(h)
  \/ \E h \in Handles : Drop(h)
  \/ \E h \in Handles, v \in Values : AccessMut(h, v)

\* The sequences of new, clone, access_mut and drop only.
SpecNCD == Init /\ [][NextNCD]_vars

NextEq ==
  \/ \E v \in Values : New(v)
  \/ \E h \in Handles : Clone(h)
  \/ \E h \in Handles : Drop(h)
  \/ \E h \in Handles : Clear(h)
  \/ \E a \in Handles, b \in Handles : Eq(a, b)

\* Construction, cloning, dropping, clearing, and comparisons of two handles.
SpecEq == Init /\ [][NextEq]_vars

\* ------------------------------------------------- one-shot extraction
\* The family's "already extracted" flag.  The flag is set in the step that
\* moves the payload out, and never reset, so it is held as the state of the
\* payload cell: "moved" is a payload cell whose value was moved out.
Extracted(hd) == present(hd.ptr) /\ pcell[hd.ptr].st = "moved"

\* The release of a handle whose family's flag is set: decrement; at zero the
\* payload free is skipped and the counter cell is freed.
ReleaseExtracted(h) ==
  /\ ~crashed
  /\ handles[h].st = "live"
  /\ Extracted(handles[h])
  /\ LET hd == handles[h]
         n == Decrement(ccell[hd.rc].val)
     IN IF valid(hd)
        THEN /\ ccell' = [ccell EXCEPT ![hd.rc] =
                            [st |-> IF n = 0 THEN "freed" ELSE @.st, val |-> n]]
             /\ cfrees' = [cfrees EXCEPT ![hd.rc] = IF n = 0 THEN @ + 1 ELSE @]
        ELSE UNCHANGED <<ccell, cfrees>>
  /\ last' = [op |-> "drop", v |-> Undef, ok |-> valid(handles[h])]
  /\ handles' = [handles EXCEPT ![h] = Dropped]
  /\ UNCHANGED <<pcell, pfrees, written, writer, crashed, raws>>

\* release: the flag-aware end of life of a handle.  With the flag clear it is
\* the Drop of the code.
Release(h) ==
  \/ ~Extracted(handles[h]) /\ Drop(h)
  \/ ReleaseExtracted(h)

\* localize(): consumes the handle, sets the flag, moves the payload value out
\* to the caller (last.v), and then the consumed handle's own teardown runs:
\* it decrements, and at zero skips the payload free and frees the counter
\* cell.  Moving out of a cell that was already moved out reads a value that is
\* gone: undefined behaviour.
Localize(h) ==
  /\ ~crashed
  /\ handles[h].st = "live"
  /\ LET hd == handles[h]
         n == Decrement(ccell[hd.rc].val)
     IN IF PDerefable(hd.ptr) /\ CDerefable(hd.rc)
        THEN /\ pcell' = [pcell EXCEPT ![hd.ptr] = [st |-> "moved", val |-> DefaultValue]]
             /\ written' = [written EXCEPT ![hd.ptr] = Undef]
             /\ writer' = [writer EXCEPT ![hd.ptr] = 0]
             /\ ccell' = [ccell EXCEPT ![hd.rc] =
                            [st |-> IF n = 0 THEN "freed" ELSE @.st, val |-> n]]
             /\ cfrees' = [cfrees EXCEPT ![hd.rc] = IF n = 0 THEN @ + 1 ELSE @]
             /\ last' = [op |-> "localize", v |-> pcell[hd.ptr].val, ok |-> TRUE]
             /\ UNCHANGED crashed
        ELSE /\ crashed' \in BOOLEAN
             /\ last' = [op |-> "localize", v |-> Undef, ok |-> FALSE]
             /\ UNCHANGED <<pcell, ccell, cfrees, written, writer>>
  /\ handles' = [handles EXCEPT ![h] = Dropped]
  /\ UNCHANGED <<pfrees, raws>>

NextLocalize ==
  \/ \E v \in Values : New(v)
  \/ \E h \in Handles : Clone(h)
  \/ \E h \in Handles : Release(h)
  \/ \E h \in Handles, v \in Values : AccessMut(h, v)
  \/ \E h \in Handles : Localize(h)

\* new, clone, access_mut, release and one-shot extraction.
SpecLocalize == Init /\ [][NextLocalize]_vars

\* ----------------------------------------- free-standing ConstPtr / MutPtr
\* The handle-free part of the crate: wrapper values made from references to
\* objects owned elsewhere (the pointees), copied, cleared and converted.
HasWrapperSlot == \E w \in Wrappers : raws.w[w].kind = "none"
NextWrapperSlot == CHOOSE w \in Wrappers :
                     /\ raws.w[w].kind = "none"
                     /\ \A u \in Wrappers : u < w => raws.w[u].kind # "none"

\* The wrapper value made last.
NewestWrapper == CHOOSE w \in Wrappers :
                   /\ raws.w[w].kind # "none"
                   /\ \A u \in Wrappers : u > w => raws.w[u].kind = "none"

\* The state all wrapper operations leave alone: the SmartPtr heap.
RawFrame ==
  UNCHANGED <<handles, pcell, ccell, pfrees, cfrees, written, writer>>

\* A new wrapper value is bound: it takes the next slot.
Bind(wv) == [raws EXCEPT !.w[NextWrapperSlot] = wv]

\* ConstPtr::new(&t) / MutPtr::new(&mut t): Self(t).
RawNew(k, c) ==
  /\ ~crashed /\ HasWrapperSlot
  /\ raws' = Bind([kind |-> k, addr |-> c])
  /\ last' = [op |-> "rawnew", v |-> Undef, ok |-> TRUE, a |-> NextWrapperSlot]
  /\ RawFrame /\ UNCHANGED crashed

\* impl Default for ConstPtr / MutPtr: Self(ptr::null()) / Self(ptr::null_mut()).
RawDefault(k) ==
  /\ ~crashed /\ HasWrapperSlot
  /\ raws' = Bind([kind |-> k, addr |-> NULL])
  /\ last' = [op |-> "rawdefault", v |-> Undef, ok |-> TRUE, a |-> NextWrapperSlot]
  /\ RawFrame /\ UNCHANGED crashed

\* impl Clone / Copy for ConstPtr / MutPtr: *self.  last.a is the source.
RawCopy(w) ==
  /\ ~crashed /\ HasWrapperSlot
  /\ raws.w[w].kind # "none"
  /\ raws' = Bind(raws.w[w])
  /\ last' = [op |-> "rawcopy", v |-> Undef, ok |-> TRUE, a |-> w]
  /\ RawFrame /\ UNCHANGED crashed

\* ConstPtr::clear / MutPtr::clear on a free-standing wrapper.
RawClear(w) ==
  /\ ~crashed
  /\ raws.w[w].kind # "none"
  /\ raws' = [raws EXCEPT !.w[w].addr = clear(@)]
  /\ last' = [op |-> "rawclear", v |-> Undef, ok |-> TRUE, a |-> w]
  /\ RawFrame /\ UNCHANGED crashed

\* *w = v through impl DerefMut for MutPtr: unsafe { &mut *self.0 }.  Through a
\* null wrapper the store is undefined behaviour.
RawWrite(w, v) ==
  /\ ~crashed
  /\ raws.w[w].kind = "mut"
  /\ IF present(raws.w[w].addr)
     THEN /\ raws' = [raws EXCEPT !.cell[raws.w[w].addr] = v]
          /\ UNCHANGED crashed
     ELSE /\ crashed' \in BOOLEAN
          /\ UNCHANGED raws
  /\ last' = [op |-> "rawwrite", v |-> v, ok |-> present(raws.w[w].addr), a |-> w]
  /\ RawFrame

\* Builds the const wrapper over no address at all.
ConstFrom_Null(mp) == [kind |-> "const", addr |-> NULL]

\* impl From<MutPtr<T>> for ConstPtr<T>: Self(ptr.raw()).
ConstFrom(mp) == [kind |-> "const", addr |-> raw(mp.addr)]

\* ConstPtr::from(m) on a MutPtr value m; MutPtr is Copy, so m stays usable.
\* last.a is the source.
ConstFromMut(w) ==
  /\ ~crashed /\ HasWrapperSlot
  /\ raws.w[w].kind = "mut"
  /\ raws' = Bind(ConstFrom(raws.w[w]))
  /\ last' = [op |-> "rawfrom", v |-> Undef, ok |-> TRUE, a |-> w]
  /\ RawFrame /\ UNCHANGED crashed

WrapperKinds == {"const", "mut"}

NextRaw ==
  \/ \E k \in WrapperKinds, c \in Pointees : RawNew(k, c)
  \/ \E k \in WrapperKinds : RawDefault(k)
  \/ \E w \in Wrappers : RawCopy(w)
  \/ \E w \in Wrappers : RawClear(w)
  \/ \E w \in Wrappers, v \in Values : RawWrite(w, v)
  \/ \E w \in Wrappers : ConstFromMut(w)

\* The raw wrappers on their own.
SpecRaw == Init /\ [][NextRaw]_vars

\* ------------------------------------------------------------ vocabulary
LiveHandles == {h \in Handles : handles[h].st = "live"}
DroppedHandles == {h \in Handles : handles[h].st = "dropped"}

\* The un-dropped handles whose counter wrapper points at counter cell c.
Members(c) == {h \in LiveHandles : handles[h].rc = c}

\* The un-dropped handles whose payload wrapper points at payload cell p.
Holders(p) == {h \in LiveHandles : handles[h].ptr = p}

\* The payload cell allocated by the same SmartPtr::new as counter cell c: both
\* allocators hand out their lowest unused address and are only ever called
\* together, so the two cells of a family carry the same index.
PayloadOf(c) == c

\* The handles whose Drop::drop runs in this step.
DroppedNow == {h \in Handles : handles[h].st = "live" /\ handles'[h].st = "dropped"}

\* ------------------------------------------------------------------- C1
\* C1: under any sequence of new, clone and drop, the counter of every family
\* whose counter cell is still allocated equals the number of handles of that
\* family created and not yet dropped (1 + k after k clones, 1 once all but
\* one are dropped).
C1_CounterAccounting ==
  \A c \in CAddrs :
    ccell[c].st = "alloc" => ccell[c].val = Cardinality(Members(c))

\* new, clone, clone read 3; two drops later the counter reads 1 again.
C1_Witness ==
  /\ last.op = "drop"
  /\ Cardinality(DroppedHandles) = 2
  /\ \E c \in CAddrs :
       /\ ccell[c].st = "alloc" /\ ccell[c].val = 1
       /\ Cardinality(Members(c)) = 1
       /\ \A d \in CAddrs \ {c} : ccell[d].st = "unalloc"

\* ------------------------------------------------------------------- C2
C2_State ==
  \A p \in PAddrs :
    /\ pfrees[p] <= 1
    /\ pfrees[p] = 1 <=> (pcell[p].st # "unalloc" /\ Holders(p) = {})

C2_Step ==
  \A p \in PAddrs :
    pfrees'[p] # pfrees[p] =>
      /\ pfrees'[p] = pfrees[p] + 1
      /\ last'.op = "drop"
      /\ Cardinality(Holders(p)) = 1
      /\ Holders(p) = DroppedNow

\* C2: under any sequence of new, clone, access_mut and drop, the payload's own
\* Drop runs at most once per family, has run exactly once as soon as no handle
\* of the family is left, and runs only in the step that drops the family's
\* last remaining handle.
C2_DeferredDestruction == [][C2_State /\ C2_State' /\ C2_Step]_vars

\* new, two clones and three drops of one family: one teardown, at the last.
C2_Witness ==
  /\ last.op = "drop" /\ last.ok
  /\ Cardinality(DroppedHandles) = 3
  /\ \E p \in PAddrs :
       /\ pfrees[p] = 1 /\ pcell[p].st = "freed"
       /\ \A q \in PAddrs \ {p} : pcell[q].st = "unalloc"

\* ------------------------------------------------------------------- C3
\* C3 as stated: every un-dropped handle reports valid() and has both cells
\* allocated; no un-dropped handle of a freed family reports valid().
C3_Original ==
  /\ \A h \in LiveHandles :
       /\ valid(handles[h])
       /\ PDerefable(handles[h].ptr)
       /\ CDerefable(handles[h].rc)
  /\ \A c \in CAddrs :
       ccell[c].st = "freed" => \A h \in Members(c) : ~valid(handles[h])

\* C3 (amended): every un-dropped handle whose payload wrapper has not been
\* nulled by clear() reports valid() and has its payload cell and its counter
\* cell still allocated, whatever other handles were dropped; no un-dropped
\* handle of a freed family reports valid().
C3_KeepAlive ==
  /\ \A h \in LiveHandles :
       present(handles[h].ptr) =>
         /\ valid(handles[h])
         /\ PDerefable(handles[h].ptr)
         /\ CDerefable(handles[h].rc)
  /\ \A c \in CAddrs :
       ccell[c].st = "freed" => \A h \in Members(c) : ~valid(handles[h])

\* The last handle standing after two others of its family were dropped, next
\* to a family that has already been freed.
C3_Witness ==
  /\ last.op = "drop"
  /\ \E h \in LiveHandles : valid(handles[h]) /\ count(handles[h]) = 1
  /\ \E c \in CAddrs : ccell[c].st = "freed"
  /\ Cardinality(DroppedHandles) = 2

\* ------------------------------------------------------------------- C4
C4_State ==
  /\ \A p \in PAddrs : pfrees[p] <= 1 /\ (pfrees[p] = 1 <=> pcell[p].st = "freed")
  /\ \A c \in CAddrs : cfrees[c] <= 1 /\ (cfrees[c] = 1 <=> ccell[c].st = "freed")
  /\ \A c \in CAddrs : ccell[c].st = pcell[PayloadOf(c)].st

C4_Step ==
  /\ \A h \in DroppedNow :
       LET hd == handles[h]
       IN IF ccell[hd.rc].val = 1
          THEN /\ pcell'[hd.ptr].st = "freed" /\ pfrees'[hd.ptr] = pfrees[hd.ptr] + 1
               /\ ccell'[hd.rc].st = "freed" /\ cfrees'[hd.rc] = cfrees[hd.rc] + 1
               /\ ccell'[hd.rc].val = 0
               /\ \A p \in PAddrs \ {hd.ptr} : pcell'[p].st = pcell[p].st
               /\ \A c \in CAddrs \ {hd.rc} : ccell'[c].st = ccell[c].st
          ELSE /\ ccell'[hd.rc].val > 0
               /\ pfrees' = pfrees /\ cfrees' = cfrees
               /\ \A p \in PAddrs : pcell'[p].st = pcell[p].st
               /\ \A c \in CAddrs : ccell'[c].st = ccell[c].st
  /\ DroppedNow = {} =>
       /\ pfrees' = pfrees /\ cfrees' = cfrees
       /\ \A p \in PAddrs : pcell'[p].st # "freed" \/ pcell[p].st = "freed"
       /\ \A c \in CAddrs : ccell'[c].st # "freed" \/ ccell[c].st = "freed"
  /\ \A p \in PAddrs :
       pcell'[p].st # pcell[p].st =>
         \/ pcell[p].st = "unalloc" /\ pcell'[p].st = "alloc" /\ last'.op = "new"
         \/ pcell[p].st = "alloc" /\ pcell'[p].st = "freed"
  /\ \A c \in CAddrs :
       ccell'[c].st # ccell[c].st =>
         \/ ccell[c].st = "unalloc" /\ ccell'[c].st = "alloc" /\ last'.op = "new"
         \/ ccell[c].st = "alloc" /\ ccell'[c].st = "freed"

\* C4: under any sequence of new, clone and drop, the two cells of a family are
\* allocated once (by new), freed by the same drop, which is exactly the drop
\* that takes the counter from 1 to 0, and never freed twice; a drop that
\* leaves the counter above zero frees nothing.
C4_FreeTogetherOnce == [][C4_State /\ C4_State' /\ C4_Step]_vars

\* One family freed by its last drop while another is still allocated.
C4_Witness ==
  /\ last.op = "drop"
  /\ \E c \in CAddrs :
       /\ ccell[c].st = "freed" /\ pcell[PayloadOf(c)].st = "freed"
       /\ cfrees[c] = 1 /\ pfrees[PayloadOf(c)] = 1
  /\ \E d \in CAddrs : ccell[d].st = "alloc" /\ Members(d) # {}

\* ------------------------------------------------------------------- C5
\* C5 as stated: the value last written through a handle of a family is the
\* value read through every other un-dropped handle of that family.
C5_Original ==
  \A h \in LiveHandles :
    LET p == PayloadOf(handles[h].rc)
    IN (written[p] # Undef /\ writer[p] # h) => access(handles[h]) = written[p]

\* C5 (amended): the value last written to the payload through a handle is the
\* value read through every other un-dropped handle of the same family whose
\* payload wrapper has not been nulled by clear(), whether it was cloned before
\* or after the write, and also after the writing handle was dropped.
C5_SharedMutation ==
  \A h \in LiveHandles :
    LET p == PayloadOf(handles[h].rc)
    IN (written[p] # Undef /\ writer[p] # h /\ present(handles[h].ptr)) =>
         /\ handles[h].ptr = p
         /\ access(handles[h]) = written[p]

\* A non-default value was written, the writing handle was dropped and a handle
\* was cloned afterwards: two other handles of the family read the value.
C5_Witness ==
  /\ last.op = "clone"
  /\ \E h \in LiveHandles, g \in LiveHandles :
       /\ h # g
       /\ handles[h].ptr = handles[g].ptr
       /\ present(handles[h].ptr)
       /\ written[handles[h].ptr] = 1
       /\ writer[handles[h].ptr] \in DroppedHandles
       /\ access(handles[h]) = 1 /\ access(handles[g]) = 1

C6_State ==
  last.op = "default" =>
    LET hd == handles[Newest]
    IN /\ present(hd.ptr) /\ present(hd.rc)
       /\ valid(hd)
       /\ PDerefable(hd.ptr) /\ CDerefable(hd.rc)
       /\ count(hd) = 1
       /\ access(hd) = DefaultValue
       /\ Holders(hd.ptr) = {Newest} /\ Members(hd.rc) = {Newest}

C6_Step ==
  (last.op = "default" /\ Newest \in DroppedNow) =>
    LET hd == handles[Newest]
    IN /\ pcell'[hd.ptr].st = "freed" /\ pfrees'[hd.ptr] = 1
       /\ ccell'[hd.rc].st = "freed" /\ cfrees'[hd.rc] = 1

C7_Original ==
  \A h \in LiveHandles :
    LET hd == handles[h]
    IN valid(hd) <=> /\ hd.ptr # NULL
                     /\ hd.rc # NULL
                     /\ extracted(hd) # NULL
                     /\ ccell[hd.rc].val > 0

\* C7 (amended): valid() iff the handle's payload-cell reference and
\* counter-cell reference are both non-null and the counter's current value is
\* above zero; the handle holds no extracted-flag-cell reference.
C7_Valid ==
  \A h \in LiveHandles :
    LET hd == handles[h]
    IN valid(hd) <=> (hd.ptr # NULL /\ hd.rc # NULL /\ ccell[hd.rc].val > 0)

\* A valid handle next to one of the same family made invalid by clear().
C7_Witness ==
  \E h \in LiveHandles, g \in LiveHandles :
    /\ handles[h].rc = handles[g].rc
    /\ valid(handles[h])
    /\ ~valid(handles[g]) /\ handles[g].ptr = NULL

\* ------------------------------------------------------------------- C8
\* C8: a drop of a handle for which valid() is false changes no counter value,
\* no payload value and no cell's allocation status.
C8_InvalidDropNoOp ==
  [][\A h \in DroppedNow :
       ~valid(handles[h]) =>
         /\ pcell' = pcell /\ ccell' = ccell
         /\ pfrees' = pfrees /\ cfrees' = cfrees]_vars

\* A handle nulled by clear() has been dropped while its family lives on.
C8_Witness ==
  /\ last.op = "drop" /\ ~last.ok /\ ~crashed
  /\ \E c \in CAddrs : ccell[c].st = "alloc" /\ ccell[c].val > Cardinality(Members(c))

\* ------------------------------------------------------------------- C9
\* C9: right after SmartPtr::new(v), with no clone taken, the counter reads 1,
\* valid() is true and access() reads v.
C9_Construction ==
  last.op = "new" =>
    LET hd == handles[Newest]
    IN /\ count(hd) = 1
       /\ valid(hd)
       /\ access(hd) = last.v

\* new(1) has just returned, as the second family of the run.
C9_Witness ==
  /\ last.op = "new" /\ last.v = 1
  /\ handles[Newest].st = "live" /\ Newest > 1
  /\ access(handles[Newest]) = 1

\* ------------------------------------------------------------------ C10
\* C10: the counter never goes below zero, and every step that lowers a counter
\* lowers it by one from a value above zero, in a cell that is allocated.
C10_NoUnderflow ==
  [][/\ \A c \in CAddrs : ccell[c].val >= 0 /\ ccell'[c].val >= 0
     /\ \A c \in CAddrs :
          ccell'[c].val < ccell[c].val =>
            /\ ccell[c].val > 0
            /\ ccell[c].st = "alloc"
            /\ ccell'[c].val = ccell[c].val - 1
            /\ last'.op = "drop"]_vars

\* A drop has taken a counter from 1 to 0 and another from above 1 down to 1.
C10_Witness ==
  /\ last.op = "drop" /\ last.ok
  /\ \E c \in CAddrs : ccell[c].st = "freed" /\ ccell[c].val = 0
  /\ \E c \in CAddrs : ccell[c].st = "alloc" /\ ccell[c].val = 1
                       /\ Cardinality(DroppedHandles) >= 2

\* ------------------------------------------------------------------ C11
\* C11 as stated: a dropped handle stays dropped and is never operated on
\* again, a handle is dropped at most once, and the drop of a handle lowers its
\* family's counter by exactly one (and nothing else lowers a counter).
C11_Lifecycle ==
  [][/\ \A h \in Handles :
          handles[h].st = "dropped" => handles'[h] = handles[h]
     /\ \A h \in DroppedNow :
          LET c == handles[h].rc
          IN /\ present(c)
             /\ ccell'[c].val = ccell[c].val - 1
             /\ \A d \in CAddrs \ {c} : ccell'[d].val = ccell[d].val
     /\ DroppedNow = {} =>
          \A c \in CAddrs : ccell'[c].val >= ccell[c].val]_vars

\* ------------------------------------------------------------------ C15
\* C15 as stated: once every handle ever created in a family has been dropped,
\* the family's counter has reached zero and both cells have been freed.
C15_NoLeak ==
  \A c \in CAddrs :
    (ccell[c].st # "unalloc" /\ Members(c) = {}) =>
      /\ ccell[c].val = 0
      /\ ccell[c].st = "freed"
      /\ pcell[PayloadOf(c)].st = "freed"

\* ------------------------------------------------------------------ C16
\* C16: clone() makes no validity check: from any handle whose counter cell is
\* allocated it raises that counter by exactly one, touches no other counter,
\* leaves every payload cell as it was and returns a handle whose two wrappers
\* are copies of the source's; from a source with a null payload wrapper the
\* returned handle is itself not valid().
C16_CloneUnchecked ==
  [][(last'.op = "clone" /\ ~crashed') =>
       \E src \in LiveHandles :
         LET hd == handles[src]
             n == NextSlot
         IN /\ CDerefable(hd.rc)
            /\ handles' = [handles EXCEPT ![n] =
                             [st |-> "live", ptr |-> hd.ptr, rc |-> hd.rc]]
            /\ ccell' = [ccell EXCEPT ![hd.rc].val = ccell[hd.rc].val + 1]
            /\ pcell' = pcell /\ pfrees' = pfrees /\ cfrees' = cfrees
            /\ last'.ok = valid(hd)
            /\ last'.v = ccell[hd.rc].val
            /\ null(hd.ptr) =>
                 /\ ~last'.ok
                 /\ null(handles'[n].ptr)
                 /\ ~(present(handles'[n].ptr) /\ present(handles'[n].rc)
                      /\ ccell'[handles'[n].rc].val > 0)]_vars

\* A handle nulled by clear() was cloned: the counter went from 1 to 2 and the
\* clone holds the null payload wrapper.
C16_Witness ==
  /\ last.op = "clone" /\ ~last.ok /\ last.v = 1 /\ ~crashed
  /\ null(handles[Newest].ptr) /\ present(handles[Newest].rc)
  /\ ~valid(handles[Newest])
  /\ count(handles[Newest]) = 2

\* ------------------------------------------------------------------ C17
\* The cells a step leaves alone apart from counter cell c's value.
C17_OnlyCounter(c, n) ==
  /\ ccell' = [ccell EXCEPT ![c].val = n]
  /\ pcell' = pcell /\ pfrees' = pfrees /\ cfrees' = cfrees

C14_ClearAndCopy ==
  [][/\ last'.op = "rawclear" =>
          /\ null(raws'.w[last'.a].addr) /\ ~present(raws'.w[last'.a].addr)
          /\ raws'.w[last'.a].kind = raws.w[last'.a].kind
          /\ raws'.cell = raws.cell
          /\ \A u \in Wrappers \ {last'.a} : raws'.w[u] = raws.w[u]
     /\ last'.op = "rawcopy" =>
          /\ raws'.w[NextWrapperSlot] = raws.w[last'.a]
          /\ raws'.cell = raws.cell
          /\ \A u \in Wrappers \ {NextWrapperSlot} : raws'.w[u] = raws.w[u]
     /\ last'.op = "rawdefault" => null(raws'.w[NextWrapperSlot].addr)
     /\ \A w \in Wrappers : null(raws'.w[w].addr) <=> ~present(raws'.w[w].addr)]_vars

\* The first wrapper was cleared after it was copied and after 1 was stored
\* in its pointee: the copy still holds the address, the pointee still holds 1.
C14_Witness ==
  /\ last.op = "rawclear" /\ last.a = 1
  /\ raws.w[1].kind = "mut" /\ null(raws.w[1].addr)
  /\ raws.w[2].kind = "mut" /\ present(raws.w[2].addr)
  /\ raws.cell[raws.w[2].addr] = 1

\* ------------------------------------------------------------------ C18
\* C18: converting a MutPtr to a ConstPtr copies the address unchanged: the
\* new ConstPtr has the source's raw() address and the source's null() and
\* present() results, and the source wrapper, every other wrapper and every
\* pointee are unchanged.
C18_ConstFromMut ==
  [][last'.op = "rawfrom" =>
       LET src == raws.w[last'.a]
           dst == raws'.w[NextWrapperSlot]
       IN /\ src.kind = "mut" /\ dst.kind = "const"
          /\ raw(dst.addr) = raw(src.addr)
          /\ null(dst.addr) <=> null(src.addr)
          /\ present(dst.addr) <=> present(src.addr)
          /\ raws'.cell = raws.cell
          /\ \A u \in Wrappers \ {NextWrapperSlot} : raws'.w[u] = raws.w[u]]_vars

\* A MutPtr over a pointee holding 1 was converted: the ConstPtr made from it
\* holds the same, non-null address.
C18_Witness ==
  /\ last.op = "rawfrom" /\ last.a = 1
  /\ raws.w[1].kind = "mut" /\ present(raws.w[1].addr)
  /\ raws.w[2].kind = "const" /\ raws.w[2].addr = raws.w[1].addr
  /\ raws.cell[raws.w[1].addr] = 1

====
